---- MODULE Spec2Model ----
(***************************************************************************)
(* The streaming connection engine of stock-app-server                     *)
(* (src/src/websocket/server.ts): one WebSocket connection, from the       *)
(* 'connection' event of the server to the socket's 'close'.               *)
(*                                                                         *)
(* Node runs every handler to completion, so each handler (and each        *)
(* continuation of an await) is one action.  Math.random() draws, the      *)
(* outcome of getStockDetail and the order in which timers and fetches     *)
(* complete are inputs chosen by \E.  Strings are sequences of characters. *)
(* ws.send is modelled as the call being issued (ws discards a send on a   *)
(* socket that is no longer open without throwing).  The price and         *)
(* timestamp of a quote belong to the market simulator and are left out.   *)
(***************************************************************************)
EXTENDS Integers, Sequences, FiniteSets

(* ---------------------------- bounds ----------------------------------- *)

MaxChains == 2       \* update chains at once: immediate fetches and timers
MaxPushes == 1       \* chaos pushes awaiting their fetch
MaxDelayed == 1      \* out-of-order sends waiting for their delay
MaxBursts == 1       \* burst fan-outs with callbacks still pending
MaxClock == 2        \* clock readings after the first

(* ------------------------ program constants ---------------------------- *)

BURST_SIZE_MIN == 5
BURST_SIZE_MAX == 15
DUPLICATE_COUNT_MAX == 3
SPIKE_INTERVAL_MS == 75
SPIKE_DURATION_MS == 8000
BURST_DELAY_MS == 10
DELAY_MIN_MS == 400
DELAY_MAX_MS == 10000
DISCONNECT_MIN_MS == 45000
DISCONNECT_MAX_MS == 120000
INTERVAL_MIN_MS == 700
INTERVAL_MAX_MS == 10000
INTERVAL_DEFAULT_MS == 1000
CLOSE_POLICY_VIOLATION == 1008
CLOSE_SERVICE_RESTART == 1012
STATUS_NOT_FOUND == 404
STATUS_INTERNAL == 500

(* ------------------------------ strings -------------------------------- *)

\* String.prototype.trim: leading and trailing white space removed
RECURSIVE TrimStart(_)
TrimStart(s) ==
  IF s # <<>> /\ Head(s) = " " THEN TrimStart(Tail(s)) ELSE s

RECURSIVE TrimEnd(_)
TrimEnd(s) ==
  IF s # <<>> /\ s[Len(s)] = " " THEN TrimEnd(SubSeq(s, 1, Len(s) - 1)) ELSE s

Trim(s) == TrimEnd(TrimStart(s))

\* String.prototype.toUpperCase
UpperChar(c) == IF c = "a" THEN "A" ELSE IF c = "b" THEN "B" ELSE c

ToUpperCase(s) == [i \in 1..Len(s) |-> UpperChar(s[i])]

EmptyString == <<>>

(* ------------------------------ messages ------------------------------- *)

\* The object handed to JSON.stringify, as one record shape for every type.
\* form is "json" for the serialisation itself and names the transform of
\* corruptJson otherwise.
OutMsg(type, symbol, message, status, at) ==
  [type |-> type, symbol |-> symbol, message |-> message,
   status |-> status, at |-> at, form |-> "json"]

ReadyMsg == OutMsg("ready", EmptyString, "Connected to stock feed", 0, 0)

InvalidFormatMsg == OutMsg("error", EmptyString, "Invalid message format", 0, 0)

SymbolRequiredMsg ==
  OutMsg("error", EmptyString, "Symbol is required for subscription", 0, 0)

PongMsg(at) == OutMsg("pong", EmptyString, "", 0, at)

ServerResetMsg == OutMsg("serverReset", EmptyString, "Simulated restart", 0, 0)

StockQuoteMsg(symbol) == OutMsg("stockQuote", symbol, "", 0, 0)

\* What getStockDetail does with a call: it resolves, rejects with an
\* HttpError, or rejects with anything else.
FetchOutcomes == {"ok", "httpError", "otherError"}

\* handleError without the status of an HttpError
handleErrorGeneric(outcome) ==
  OutMsg("error", EmptyString,
         IF outcome = "httpError"
         THEN "Not Found"
         ELSE "Unexpected error while fetching stock detail",
         STATUS_INTERNAL, 0)

handleError(outcome) ==
  IF outcome = "httpError"
  THEN OutMsg("error", EmptyString, "Not Found", STATUS_NOT_FOUND, 0)
  ELSE OutMsg("error", EmptyString,
              "Unexpected error while fetching stock detail", STATUS_INTERNAL, 0)

(* ------------------------- inbound payloads ---------------------------- *)

\* A field of a parsed JSON object: absent, null, a number (finite or, as
\* JSON.parse gives for 1e999, Infinity) or a string.
Absent == [t |-> "absent", n |-> 0, finite |-> TRUE, s |-> EmptyString]

JNull == [t |-> "null", n |-> 0, finite |-> TRUE, s |-> EmptyString]

JNum(n) == [t |-> "number", n |-> n, finite |-> TRUE, s |-> EmptyString]

JInfinity == [t |-> "number", n |-> 0, finite |-> FALSE, s |-> EmptyString]

JStr(s) == [t |-> "string", n |-> 0, finite |-> TRUE, s |-> s]

\* The type tag is kept as a TLA+ string.
NoTag == [t |-> "absent", tag |-> ""]

NumTag == [t |-> "number", tag |-> ""]

Tag(name) == [t |-> "string", tag |-> name]

\* A raw payload: whether JSON.parse accepts it and, if so, the value.
Payload(json, kind, type, symbol, intervalMs) ==
  [json |-> json, kind |-> kind, type |-> type, symbol |-> symbol,
   intervalMs |-> intervalMs]

NonJsonPayload == Payload(FALSE, "none", NoTag, Absent, Absent)

Subscribe(symbol, intervalMs) ==
  Payload(TRUE, "object", Tag("subscribe"), symbol, intervalMs)

\* The subscribes a client sends.  Symbols: missing, not a string, empty,
\* blank, to be upper-cased, upper case already, to be trimmed on both sides,
\* with a space inside.  Intervals: missing, not a number, Infinity, below
\* the range, inside it, above it.
SubscribePayloads ==
  {Subscribe(Absent, Absent),
   Subscribe(JNum(7), JNum(50)),
   Subscribe(JStr(<<>>), Absent),
   Subscribe(JStr(<<" ">>), JNum(20000)),
   Subscribe(JStr(<<"a">>), Absent),
   Subscribe(JStr(<<"A">>), JInfinity),
   Subscribe(JStr(<<" ", "a", " ">>), JNum(50)),
   Subscribe(JStr(<<" ", "a", " ">>), JStr(<<"a">>)),
   Subscribe(JStr(<<"a", " ", "b">>), JNum(5000)),
   Subscribe(JStr(<<"a", " ", "b">>), JNum(20000))}

\* The symbol strings of a request's query.
SymbolStrings ==
  {<<>>, <<" ">>, <<"a">>, <<"A">>, <<" ", "a", " ">>, <<"a", " ", "b">>}

MalformedPayloads ==
  {NonJsonPayload,
   Payload(TRUE, "null", NoTag, Absent, Absent),
   Payload(TRUE, "array", NoTag, Absent, Absent),
   Payload(TRUE, "object", NoTag, JStr(<<"a">>), Absent),
   Payload(TRUE, "object", NumTag, JStr(<<"a">>), JNum(50))}

Payloads ==
  MalformedPayloads \cup SubscribePayloads
    \cup {Payload(TRUE, "object", Tag("ping"), Absent, Absent),
          Payload(TRUE, "object", Tag("unknown"), JStr(<<"a">>), Absent)}

Undefined == Payload(FALSE, "undefined", NoTag, Absent, Absent)

\* parseMessage without the test of the type field
parseMessageAnyObject(raw) ==
  IF raw.json /\ raw.kind \in {"object", "array"} THEN raw ELSE Undefined

\* parseMessage: the parsed value when it is a non-null object (typeof of an
\* array is 'object' too) whose type is a string, undefined otherwise
parseMessage(raw) ==
  IF raw.json /\ raw.kind \in {"object", "array"} /\ raw.type.t = "string"
  THEN raw
  ELSE Undefined

Min(a, b) == IF a < b THEN a ELSE b

Max(a, b) == IF a > b THEN a ELSE b

\* clampNumber without the lower bound
clampNumberNoFloor(value, min, max, fallback) ==
  IF value.t # "number" \/ ~value.finite
  THEN fallback
  ELSE Min(value.n, max)

clampNumber(value, min, max, fallback) ==
  IF value.t # "number" \/ ~value.finite
  THEN fallback
  ELSE Min(Max(value.n, min), max)

(* ----------------------------- arithmetic ------------------------------ *)

\* Numbers that are not integers are exact fractions num/den in lowest terms
\* (the rounding of IEEE doubles is left out).  The operations are functions,
\* so that an operand is evaluated once.
GcdOf[a \in Nat, b \in Nat] == IF b = 0 THEN a ELSE GcdOf[b, a % b]

Gcd(a, b) == GcdOf[a, b]

RatOf[n \in Nat, d \in Nat] == [num |-> n \div GcdOf[n, d], den |-> d \div GcdOf[n, d]]

Rat(n, d) == RatOf[n, d]

Whole(n) == [num |-> n, den |-> 1]

Fractions == [num : Nat, den : Nat]

Lcm(a, b) == (a \div GcdOf[a, b]) * b

RatAddOf[x \in Fractions, y \in Fractions] ==
  RatOf[x.num * (Lcm(x.den, y.den) \div x.den) + y.num * (Lcm(x.den, y.den) \div y.den),
        Lcm(x.den, y.den)]

RatAdd(x, y) == RatAddOf[x, y]

RatSubOf[x \in Fractions, y \in Fractions] ==
  RatOf[x.num * (Lcm(x.den, y.den) \div x.den) - y.num * (Lcm(x.den, y.den) \div y.den),
        Lcm(x.den, y.den)]

RatSub(x, y) == RatSubOf[x, y]

RatMulOf[x \in Fractions, y \in Fractions] ==
  RatOf[(x.num \div GcdOf[x.num, y.den]) * (y.num \div GcdOf[y.num, x.den]),
        (x.den \div GcdOf[y.num, x.den]) * (y.den \div GcdOf[x.num, y.den])]

RatMul(x, y) == RatMulOf[x, y]

\* Math.floor and Math.round (the nearest integer, a half going up) of a
\* fraction that is not negative
Floor(x) == x.num \div x.den

Round(x) == (2 * x.num + x.den) \div (2 * x.den)

\* Math.random() gives r / RandomSteps for a draw r in 0..RandomSteps - 1:
\* equally spaced values of [0, 1), close enough to each other to tell the
\* last half millisecond of a range of 75 s from the rest.
RandomSteps == 160000

RandomDraws == {0, RandomSteps \div 2, RandomSteps - 1}

MathRandom(r) == Rat(r, RandomSteps)

randBetween(min, max, r) == RatAdd(RatMul(MathRandom(r), RatSub(max, min)), min)

\* pickNextDelay without the clamp
pickNextDelayUnclamped(base, r) ==
  Round(RatMul(Whole(base), randBetween(Rat(9, 10), Rat(11, 10), r)))

pickNextDelay(base, r) ==
  LET jitter == randBetween(Rat(9, 10), Rat(11, 10), r)
      raw == RatMul(Whole(base), jitter)
  IN  Min(DELAY_MAX_MS, Max(DELAY_MIN_MS, Round(raw)))

(* ------------------------------ requests ------------------------------- *)

PathWs == <<"/", "w", "s">>

PathQuotes == <<"/", "w", "s", "/", "q", "u", "o", "t", "e", "s">>

Pathnames ==
  {<<"/">>, PathWs, Append(PathWs, "/"), Append(Append(PathWs, "/"), "/"),
   PathQuotes, Append(PathQuotes, "/"), Append(PathWs, "x"),
   <<"/", "w">>, <<"/", "q", "u", "o", "t", "e", "s">>,
   <<"/", "/", "w", "s">>}

\* The symbol query parameter: searchParams.get gives null or a string.
QueryParams == {JNull} \cup {JStr(s) : s \in SymbolStrings}

Requests == [pathname : Pathnames, symbol : QueryParams]

NoRequest == [pathname |-> EmptyString, symbol |-> JNull]

EndsWithSlash(pathname) == pathname # <<>> /\ pathname[Len(pathname)] = "/"

\* isAllowedPath without the trailing slash removed
isAllowedPathExact(pathname) == pathname = PathWs \/ pathname = PathQuotes

isAllowedPath(pathname) ==
  LET normalized ==
        IF EndsWithSlash(pathname) /\ pathname # <<"/">>
        THEN SubSeq(pathname, 1, Len(pathname) - 1)
        ELSE pathname
  IN  normalized = PathWs \/ normalized = PathQuotes

\* parseWsRequest without toUpperCase
parseWsRequestAsTyped(r) ==
  LET symbol == IF r.symbol.t = "string" THEN Trim(r.symbol.s) ELSE EmptyString
  IN  [pathname |-> r.pathname,
       symbolFromQuery |-> IF symbol # EmptyString THEN JStr(symbol) ELSE Absent]

\* parseWsRequest: symbolFromQuery is undefined (Absent here) when the
\* parameter is missing or empty after trim
parseWsRequest(r) ==
  LET symbol == IF r.symbol.t = "string"
                THEN ToUpperCase(Trim(r.symbol.s))
                ELSE EmptyString
  IN  [pathname |-> r.pathname,
       symbolFromQuery |-> IF symbol # EmptyString THEN JStr(symbol) ELSE Absent]


(* ------------------------------- state --------------------------------- *)

VARIABLES
  req,             \* the upgrade request the server has not handled yet
  conn,            \* "connecting", "rejected" or "accepted"
  readyState,      \* ws.readyState: "OPEN", "CLOSING" or "CLOSED"
  closeCode,       \* the code the server passed to socket.close, 0 if none
  subscription,    \* [symbol, intervalMs, timer]; timer 0 is undefined
  connState,       \* [inSpikeMode, spikeEndTime]
  closed,          \* the closed flag of the connection's closure
  disconnectTimer, \* "undefined", "pending" or "fired" (a handle is kept)
  timers,          \* handles of the update timers that are pending
  staleTimers,     \* history: pending update timers of a superseded chain
  fetches,         \* restartStream calls awaiting getStockDetail
  pushes,          \* pushUpdateWithChaos calls awaiting getStockDetail
  burstTimers,     \* per burst, the delays of its callbacks still pending
  delayed,         \* out-of-order sendMessage callbacks that are pending
  now,             \* what Date.now() returns
  written,         \* the messages the last step passed to ws.send, in order
  scheduled,       \* the update and disconnect timers the last step armed
  firstWritten,    \* history: type of the first message ever written
  readyWrites,     \* history: how many ready messages were written
  crashed          \* an exception left a handler uncaught: the process died

vars ==
  <<req, conn, readyState, closeCode, subscription, connState, closed,
    disconnectTimer, timers, staleTimers, fetches, pushes, burstTimers,
    delayed, now, written, scheduled, firstWritten, readyWrites, crashed>>

TimerIds == 1..MaxChains

NoTimer == 0

ClockStep == SPIKE_DURATION_MS \div 2

RemoveAt(seq, i) == SubSeq(seq, 1, i - 1) \o SubSeq(seq, i + 1, Len(seq))

\* The type of the first message written so far, given this step's writes.
FirstAfter(first, msgs) ==
  IF first = "none" /\ msgs # <<>> THEN msgs[1].type ELSE first

Init ==
  /\ req \in Requests
  /\ conn = "connecting"
  /\ readyState = "OPEN"
  /\ closeCode = 0
  /\ subscription =
       [symbol |-> EmptyString, intervalMs |-> INTERVAL_DEFAULT_MS, timer |-> NoTimer]
  /\ connState = [inSpikeMode |-> FALSE, spikeEndTime |-> 0]
  /\ closed = FALSE
  /\ disconnectTimer = "undefined"
  /\ timers = {}
  /\ staleTimers = {}
  /\ fetches = <<>>
  /\ pushes = <<>>
  /\ burstTimers = <<>>
  /\ delayed = <<>>
  /\ now = 0
  /\ written = <<>>
  /\ scheduled = <<>>
  /\ firstWritten = "none"
  /\ readyWrites = 0
  /\ crashed = FALSE

(* ------------------------------ helpers -------------------------------- *)

\* stopStream: clearTimeout of the handle the subscription holds
stopStream(sub) == [sub EXCEPT !.timer = NoTimer]

\* the update timers left pending by stopStream(sub)
PendingAfterStop(sub, pending) == pending \ {sub.timer}

\* clearDisconnect without the clearTimeout
clearDisconnectHandleOnly(timer) == IF timer = "pending" THEN "pending" ELSE "undefined"

\* clearDisconnect: the handle is dropped, the timer (if pending) cancelled
clearDisconnect(timer) == "undefined"

\* a setTimeout call: which timer, and its delay
Timeout(timer, ms) == [timer |-> timer, ms |-> ms]

\* the setTimeout calls of a step, in order
SetTimeout(calls) == scheduled' = calls

\* scheduleDisconnect: the delay of the forced disconnect
scheduleDisconnect(r) ==
  Round(randBetween(Whole(DISCONNECT_MIN_MS), Whole(DISCONNECT_MAX_MS), r))

MarkStale(calls) == [i \in 1..Len(calls) |-> [calls[i] EXCEPT !.stale = TRUE]]

\* restartStream up to its await: what it writes, and whether a fetch starts
RestartWrites(sub) ==
  IF sub.symbol = EmptyString THEN <<SymbolRequiredMsg>> ELSE <<>>

\* restartStream without the return after the error
RestartFetchesNoReturn(sub, calls) ==
  Append(calls, [symbol |-> sub.symbol, stale |-> FALSE])

RestartFetches(sub, calls) ==
  IF sub.symbol = EmptyString
  THEN calls
  ELSE Append(calls, [symbol |-> sub.symbol, stale |-> FALSE])

\* the spike bookkeeping of scheduleNext; draw is Math.random() < SPIKE_CHANCE
SpikeUpdate(cs, t, draw) ==
  LET expired == IF cs.inSpikeMode /\ t >= cs.spikeEndTime
                 THEN [cs EXCEPT !.inSpikeMode = FALSE]
                 ELSE cs
  IN  IF ~expired.inSpikeMode /\ draw
      THEN [inSpikeMode |-> TRUE, spikeEndTime |-> t + SPIKE_DURATION_MS]
      ELSE expired

FreeTimerIds(pending) == TimerIds \ pending

\* corruptJson: one of four transforms of the serialised payload
CorruptForms == {"truncated", "lastCharDropped", "garbageAppended", "quoteDropped"}

corruptJson(msg, corruptionType) == [msg EXCEPT !.form = corruptionType]

\* sendMessage without the test of readyState
sendMessageUnchecked(state, msg, duplicateCount) == [i \in 1..duplicateCount |-> msg]

\* sendMessage: duplicateCount writes, each only if the socket is OPEN
sendMessage(state, msg, duplicateCount) ==
  IF state = "OPEN" THEN [i \in 1..duplicateCount |-> msg] ELSE <<>>


LeastFree(pending) ==
  CHOOSE id \in FreeTimerIds(pending) : \A other \in FreeTimerIds(pending) : id <= other

\* ws.send of msgs, in order, with the history kept
Send(msgs) ==
  /\ written' = msgs
  /\ firstWritten' = FirstAfter(firstWritten, msgs)
  /\ readyWrites' =
       readyWrites + Cardinality({i \in DOMAIN msgs : msgs[i].type = "ready"})

\* the process runs and the connection handler registered its listeners
Live == conn = "accepted" /\ ~crashed

\* scheduleNext without the setTimeout
scheduleNextNotArmed(pending, superseded, draw, jitter) ==
  /\ connState' = SpikeUpdate(connState, now, draw)
  /\ subscription' = subscription
  /\ timers' = pending
  /\ SetTimeout(<<>>)
  /\ staleTimers' = staleTimers \cap pending

\* scheduleNext: spike bookkeeping, then one new timer, kept in sub.timer
scheduleNext(pending, superseded, draw, jitter) ==
  LET id == LeastFree(pending)
      state == SpikeUpdate(connState, now, draw)
      baseInterval == IF state.inSpikeMode
                      THEN SPIKE_INTERVAL_MS
                      ELSE subscription.intervalMs
  IN  /\ connState' = state
      /\ subscription' = [subscription EXCEPT !.timer = id]
      /\ timers' = pending \cup {id}
      /\ SetTimeout(<<Timeout("update", pickNextDelay(baseInterval, jitter))>>)
      /\ staleTimers' =
           IF superseded
           THEN (staleTimers \cap pending) \cup {id}
           ELSE (staleTimers \cap pending) \ {id}

(* ------------------------------ actions -------------------------------- *)

\* wss.on('connection'), invalid path: close(1008) and return
ConnectionRejected ==
  /\ SetTimeout(<<>>)
  /\ conn = "connecting"
  /\ ~crashed
  /\ ~isAllowedPath(parseWsRequest(req).pathname)
  /\ conn' = "rejected"
  /\ req' = NoRequest
  /\ readyState' = "CLOSING"
  /\ closeCode' = CLOSE_POLICY_VIOLATION
  /\ Send(<<>>)
  /\ UNCHANGED <<subscription, connState, closed, disconnectTimer, 
                 timers, staleTimers, fetches, pushes, burstTimers,
                 delayed, now, crashed>>

\* wss.on('connection'), allowed path: ready, scheduleDisconnect (r is its
\* Math.random() draw) and, with an initial symbol, restartStream up to its
\* await
ConnectionAccepted(r) ==
  /\ conn = "connecting"
  /\ ~crashed
  /\ isAllowedPath(parseWsRequest(req).pathname)
  /\ LET q == parseWsRequest(req).symbolFromQuery
         sub == [symbol |-> IF q.t = "string" THEN q.s ELSE EmptyString,
                 intervalMs |-> INTERVAL_DEFAULT_MS,
                 timer |-> NoTimer]
     IN  /\ subscription' = IF sub.symbol # EmptyString THEN stopStream(sub) ELSE sub
         /\ fetches' = IF sub.symbol # EmptyString
                       THEN RestartFetches(sub, fetches)
                       ELSE fetches
         /\ Send(<<ReadyMsg>> \o
                 (IF sub.symbol # EmptyString THEN RestartWrites(sub) ELSE <<>>))
  /\ conn' = "accepted"
  /\ req' = NoRequest
  /\ disconnectTimer' = "pending"
  /\ SetTimeout(<<Timeout("disconnect", scheduleDisconnect(r))>>)
  /\ UNCHANGED <<readyState, closeCode, connState, closed, timers, 
                 staleTimers, pushes, burstTimers, delayed, now, crashed>>

\* the transport delivers a message only while the socket has neither closed
\* nor failed
Receiving == Live /\ ~closed /\ readyState # "CLOSED"

\* socket.on('message'): parseMessage gives undefined
MessageInvalid(raw) ==
  /\ SetTimeout(<<>>)
  /\ Receiving
  /\ parseMessage(raw) = Undefined
  /\ Send(<<InvalidFormatMsg>>)
  /\ UNCHANGED <<req, conn, readyState, closeCode, subscription, connState,
                 closed, disconnectTimer, timers, 
                 staleTimers, fetches, pushes, burstTimers, delayed, now, crashed>>

\* socket.on('message'): ping; drop is Math.random() < HEARTBEAT_DROP_CHANCE
MessagePing(raw, drop) ==
  /\ SetTimeout(<<>>)
  /\ Receiving
  /\ parseMessage(raw) # Undefined
  /\ parseMessage(raw).type.tag = "ping"
  /\ Send(IF drop THEN <<>> ELSE <<PongMsg(now)>>)
  /\ UNCHANGED <<req, conn, readyState, closeCode, subscription, connState,
                 closed, disconnectTimer, timers, 
                 staleTimers, fetches, pushes, burstTimers, delayed, now, crashed>>

\* socket.on('message'): a type that is neither ping nor subscribe
MessageOther(raw) ==
  /\ SetTimeout(<<>>)
  /\ Receiving
  /\ parseMessage(raw) # Undefined
  /\ parseMessage(raw).type.tag \notin {"ping", "subscribe"}
  /\ Send(<<>>)
  /\ UNCHANGED <<req, conn, readyState, closeCode, subscription, connState,
                 closed, disconnectTimer, timers, 
                 staleTimers, fetches, pushes, burstTimers, delayed, now, crashed>>

\* socket.on('message'): subscribe.  message.symbol.trim() throws a TypeError
\* when symbol is not a string; nothing catches it in the listener.
MessageSubscribe(raw) ==
  /\ SetTimeout(<<>>)
  /\ Receiving
  /\ parseMessage(raw) # Undefined
  /\ parseMessage(raw).type.tag = "subscribe"
  /\ LET message == parseMessage(raw)
     IN  IF message.symbol.t # "string"
         THEN /\ crashed' = TRUE
              /\ Send(<<>>)
              /\ UNCHANGED <<subscription, timers, staleTimers, fetches>>
         ELSE LET sub == [subscription EXCEPT
                            !.symbol = ToUpperCase(Trim(message.symbol.s)),
                            !.intervalMs =
                               clampNumber(message.intervalMs, INTERVAL_MIN_MS,
                                           INTERVAL_MAX_MS, INTERVAL_DEFAULT_MS)]
              IN  /\ sub.symbol # EmptyString =>
                       Len(fetches) + Cardinality(PendingAfterStop(sub, timers))
                         < MaxChains
                  /\ subscription' = stopStream(sub)
                  /\ timers' = PendingAfterStop(sub, timers)
                  /\ staleTimers' = PendingAfterStop(sub, timers)
                  /\ fetches' = RestartFetches(sub, MarkStale(fetches))
                  /\ Send(RestartWrites(sub))
                  /\ crashed' = crashed
  /\ UNCHANGED <<req, conn, readyState, closeCode, connState, closed,
                 disconnectTimer, pushes, burstTimers, delayed, now>>

\* pushUpdate after its await: the quote, or the error of handleError
pushUpdate(symbol, outcome) ==
  <<IF outcome = "ok" THEN StockQuoteMsg(symbol) ELSE handleError(outcome)>>

\* restartStream with pushUpdateWithChaos in the place of pushUpdate
FetchResolvesThroughChaos(i, outcome, spikeDraw, jitter) ==
  /\ Live
  /\ i \in 1..Len(fetches)
  /\ \E form \in CorruptForms \cup {"json"}, duplicateCount \in 1..DUPLICATE_COUNT_MAX :
       Send(IF outcome = "ok"
            THEN sendMessage(readyState,
                             [StockQuoteMsg(fetches[i].symbol) EXCEPT !.form = form],
                             duplicateCount)
            ELSE <<handleError(outcome)>>)
  /\ fetches' = RemoveAt(fetches, i)
  /\ IF closed
     THEN /\ SetTimeout(<<>>)
          /\ UNCHANGED <<subscription, connState, timers, staleTimers>>
     ELSE scheduleNext(timers, fetches[i].stale, spikeDraw, jitter)
  /\ UNCHANGED <<req, conn, readyState, closeCode, closed, disconnectTimer,
                 pushes, burstTimers, delayed, now, crashed>>

\* restartStream after its await: pushUpdate writes the quote or the error,
\* then, unless closed, scheduleNext
FetchResolves(i, outcome, spikeDraw, jitter) ==
  /\ Live
  /\ i \in 1..Len(fetches)
  /\ Send(pushUpdate(fetches[i].symbol, outcome))
  /\ fetches' = RemoveAt(fetches, i)
  /\ IF closed
     THEN /\ SetTimeout(<<>>)
          /\ UNCHANGED <<subscription, connState, timers, staleTimers>>
     ELSE scheduleNext(timers, fetches[i].stale, spikeDraw, jitter)
  /\ UNCHANGED <<req, conn, readyState, closeCode, closed, disconnectTimer,
                 pushes, burstTimers, delayed, now, crashed>>

\* the delays of the callbacks of a burst of burstSize pushes
BurstDelays(burstSize) == [k \in 1..burstSize |-> (k - 1) * BURST_DELAY_MS]

\* the callback of an update timer without its call of scheduleNext
UpdateTimerFiresNoRearm(id, spikeDraw, jitter, burstDraw, burstSize) ==
  /\ Live
  /\ id \in timers
  /\ IF closed
     THEN /\ timers' = timers \ {id}
          /\ SetTimeout(<<>>)
          /\ staleTimers' = staleTimers \ {id}
          /\ UNCHANGED <<subscription, connState, pushes, burstTimers>>
     ELSE /\ scheduleNextNotArmed(timers \ {id}, id \in staleTimers, spikeDraw, jitter)
          /\ IF burstDraw
             THEN /\ Len(burstTimers) < MaxBursts
                  /\ burstTimers' = Append(burstTimers, BurstDelays(burstSize))
                  /\ pushes' = pushes
             ELSE /\ Len(pushes) < MaxPushes
                  /\ pushes' = Append(pushes, [symbol |-> subscription.symbol,
                                               burst |-> FALSE])
                  /\ burstTimers' = burstTimers
  /\ Send(<<>>)
  /\ UNCHANGED <<req, conn, readyState, closeCode, closed, disconnectTimer,
                 fetches, delayed, now, crashed>>

\* the callback of an update timer: unless closed, scheduleNext, then a burst
\* of burstSize deferred pushes or one pushUpdateWithChaos up to its await
UpdateTimerFires(id, spikeDraw, jitter, burstDraw, burstSize) ==
  /\ Live
  /\ id \in timers
  /\ IF closed
     THEN /\ timers' = timers \ {id}
          /\ SetTimeout(<<>>)
          /\ staleTimers' = staleTimers \ {id}
          /\ UNCHANGED <<subscription, connState, pushes, burstTimers>>
     ELSE /\ scheduleNext(timers \ {id}, id \in staleTimers, spikeDraw, jitter)
          /\ IF burstDraw
             THEN /\ Len(burstTimers) < MaxBursts
                  /\ burstTimers' = Append(burstTimers, BurstDelays(burstSize))
                  /\ pushes' = pushes
             ELSE /\ Len(pushes) < MaxPushes
                  /\ pushes' = Append(pushes, [symbol |-> subscription.symbol,
                                               burst |-> FALSE])
                  /\ burstTimers' = burstTimers
  /\ Send(<<>>)
  /\ UNCHANGED <<req, conn, readyState, closeCode, closed, disconnectTimer,
                 fetches, delayed, now, crashed>>

\* the next deferred callback of the b-th burst: unless closed,
\* pushUpdateWithChaos up to its await
BurstTimerFires(b) ==
  /\ SetTimeout(<<>>)
  /\ Live
  /\ b \in 1..Len(burstTimers)
  /\ burstTimers' = IF Len(burstTimers[b]) = 1
                    THEN RemoveAt(burstTimers, b)
                    ELSE [burstTimers EXCEPT ![b] = Tail(burstTimers[b])]
  /\ IF closed
     THEN pushes' = pushes
     ELSE /\ Len(pushes) < MaxPushes
          /\ pushes' = Append(pushes, [symbol |-> subscription.symbol,
                                       burst |-> TRUE])
  /\ Send(<<>>)
  /\ UNCHANGED <<req, conn, readyState, closeCode, subscription, connState,
                 closed, disconnectTimer, timers, 
                 staleTimers, fetches, delayed, now, crashed>>

\* pushUpdateWithChaos after its await: the chaos draws, then sendMessage now
\* or after the out-of-order delay; a failed fetch goes to handleError
ChaosFetchResolves(i, outcome, isOutOfOrder, form, duplicateCount) ==
  /\ SetTimeout(<<>>)
  /\ Live
  /\ i \in 1..Len(pushes)
  /\ pushes' = RemoveAt(pushes, i)
  /\ LET jsonPayload == StockQuoteMsg(pushes[i].symbol)
         messageToSend == IF form \in CorruptForms
                          THEN corruptJson(jsonPayload, form)
                          ELSE jsonPayload
     IN  IF outcome # "ok"
         THEN /\ Send(<<handleError(outcome)>>)
              /\ delayed' = delayed
         ELSE IF isOutOfOrder
              THEN /\ Len(delayed) < MaxDelayed
                   /\ delayed' = Append(delayed, [msg |-> messageToSend,
                                                  duplicateCount |-> duplicateCount,
                                                  burst |-> pushes[i].burst])
                   /\ Send(<<>>)
              ELSE /\ Send(sendMessage(readyState, messageToSend, duplicateCount))
                   /\ delayed' = delayed
  /\ UNCHANGED <<req, conn, readyState, closeCode, subscription, connState,
                 closed, disconnectTimer, timers, 
                 staleTimers, fetches, burstTimers, now, crashed>>

\* the out-of-order setTimeout: sendMessage
DelayedSendFires(i) ==
  /\ SetTimeout(<<>>)
  /\ Live
  /\ i \in 1..Len(delayed)
  /\ delayed' = RemoveAt(delayed, i)
  /\ Send(sendMessage(readyState, delayed[i].msg, delayed[i].duplicateCount))
  /\ UNCHANGED <<req, conn, readyState, closeCode, subscription, connState,
                 closed, disconnectTimer, timers, 
                 staleTimers, fetches, pushes, burstTimers, now, crashed>>

\* the callback of scheduleDisconnect: serverReset and close(1012) if OPEN
DisconnectTimerFires ==
  /\ SetTimeout(<<>>)
  /\ Live
  /\ disconnectTimer = "pending"
  /\ disconnectTimer' = "fired"
  /\ IF readyState = "OPEN"
     THEN /\ Send(<<ServerResetMsg>>)
          /\ readyState' = "CLOSING"
          /\ closeCode' = CLOSE_SERVICE_RESTART
     ELSE /\ Send(<<>>)
          /\ UNCHANGED <<readyState, closeCode>>
  /\ UNCHANGED <<req, conn, subscription, connState, closed, 
                 timers, staleTimers, fetches, pushes, burstTimers,
                 delayed, now, crashed>>

\* socket.on('close')
SocketClose ==
  /\ SetTimeout(<<>>)
  /\ Live
  /\ readyState # "CLOSED"
  /\ readyState' = "CLOSED"
  /\ closed' = TRUE
  /\ subscription' = stopStream(subscription)
  /\ timers' = PendingAfterStop(subscription, timers)
  /\ staleTimers' = staleTimers \cap PendingAfterStop(subscription, timers)
  /\ disconnectTimer' = clearDisconnect(disconnectTimer)
  /\ Send(<<>>)
  /\ UNCHANGED <<req, conn, closeCode, connState, fetches, pushes,
                 burstTimers, delayed, now, crashed>>

\* socket.on('error'): ws has left OPEN when it emits the event
SocketError ==
  /\ SetTimeout(<<>>)
  /\ Live
  /\ readyState # "CLOSED"
  /\ readyState' = "CLOSING"
  /\ closed' = TRUE
  /\ subscription' = stopStream(subscription)
  /\ timers' = PendingAfterStop(subscription, timers)
  /\ staleTimers' = staleTimers \cap PendingAfterStop(subscription, timers)
  /\ disconnectTimer' = clearDisconnect(disconnectTimer)
  /\ Send(<<>>)
  /\ UNCHANGED <<req, conn, closeCode, connState, fetches, pushes,
                 burstTimers, delayed, now, crashed>>

\* time passes
AdvanceClock ==
  /\ SetTimeout(<<>>)
  /\ Live
  /\ now < MaxClock * ClockStep
  /\ now' = now + ClockStep
  /\ Send(<<>>)
  /\ UNCHANGED <<req, conn, readyState, closeCode, subscription, connState,
                 closed, disconnectTimer, timers, 
                 staleTimers, fetches, pushes, burstTimers, delayed, crashed>>

\* burstSize of the timer callback, from its Math.random() draw
BurstSize(r) ==
  Floor(randBetween(Whole(BURST_SIZE_MIN), Whole(BURST_SIZE_MAX + 1), r))

BurstSizes == {BurstSize(r) : r \in RandomDraws}

\* duplicateCount with the upper end of its range one too high
DuplicateCountWide(isDuplicate, r) ==
  IF isDuplicate
  THEN Floor(randBetween(Whole(2), Whole(DUPLICATE_COUNT_MAX + 2), r))
  ELSE 1

\* duplicateCount of pushUpdateWithChaos, from its two draws
DuplicateCount(isDuplicate, r) ==
  IF isDuplicate
  THEN Floor(randBetween(Whole(2), Whole(DUPLICATE_COUNT_MAX + 1), r))
  ELSE 1

DuplicateCounts == {DuplicateCount(d, r) : d \in BOOLEAN, r \in RandomDraws}

\* A chaos draw that misses, and the whole range of one.
Calm == {FALSE}

Drawn == BOOLEAN

\* The draw that gives a jitter of exactly 1.
Steady == {RandomSteps \div 2}

\* The connection protocol: every handler of the connection, with the draws
\* of spike mode, burst, out-of-order delay, corruption and duplication
\* missing.
Next ==
  \/ ConnectionRejected
  \/ \E r \in Steady : ConnectionAccepted(r)
  \/ \E raw \in Payloads : MessageInvalid(raw)
  \/ \E raw \in Payloads, drop \in Drawn : MessagePing(raw, drop)
  \/ \E raw \in Payloads : MessageOther(raw)
  \/ \E raw \in Payloads : MessageSubscribe(raw)
  \/ \E i \in 1..MaxChains, outcome \in FetchOutcomes, spikeDraw \in Calm,
        jitter \in Steady :
       FetchResolves(i, outcome, spikeDraw, jitter)
  \/ \E id \in TimerIds, spikeDraw \in Calm, jitter \in Steady,
        burstDraw \in Calm, burstSize \in {BURST_SIZE_MIN} :
       UpdateTimerFires(id, spikeDraw, jitter, burstDraw, burstSize)
  \/ \E i \in 1..MaxPushes, outcome \in FetchOutcomes, isOutOfOrder \in Calm :
       ChaosFetchResolves(i, outcome, isOutOfOrder, "json", 1)
  \/ DisconnectTimerFires
  \/ SocketClose
  \/ SocketError

Spec == Init /\ [][Next]_vars

\* The chaos injector at work: a client that connects to /ws?symbol=a and
\* then only listens, with the draws of burst, out-of-order delay, corruption
\* and duplication taken both ways.
ChaosRequests == {[pathname |-> PathWs, symbol |-> JStr(<<"a">>)]}

Forms == CorruptForms \cup {"json"}

InitChaos ==
  /\ req \in ChaosRequests
  /\ conn = "connecting"
  /\ readyState = "OPEN"
  /\ closeCode = 0
  /\ subscription =
       [symbol |-> EmptyString, intervalMs |-> INTERVAL_DEFAULT_MS, timer |-> NoTimer]
  /\ connState = [inSpikeMode |-> FALSE, spikeEndTime |-> 0]
  /\ closed = FALSE
  /\ disconnectTimer = "undefined"
  /\ timers = {}
  /\ staleTimers = {}
  /\ fetches = <<>>
  /\ pushes = <<>>
  /\ burstTimers = <<>>
  /\ delayed = <<>>
  /\ now = 0
  /\ written = <<>>
  /\ scheduled = <<>>
  /\ firstWritten = "none"
  /\ readyWrites = 0
  /\ crashed = FALSE

NextChaos ==
  \/ \E r \in Steady : ConnectionAccepted(r)
  \/ \E i \in 1..MaxChains, outcome \in FetchOutcomes, spikeDraw \in Calm,
        jitter \in Steady :
       FetchResolves(i, outcome, spikeDraw, jitter)
  \/ \E id \in TimerIds, spikeDraw \in Calm, jitter \in Steady,
        burstDraw \in Drawn, burstSize \in BurstSizes :
       UpdateTimerFires(id, spikeDraw, jitter, burstDraw, burstSize)
  \/ \E b \in 1..MaxBursts : BurstTimerFires(b)
  \/ \E i \in 1..MaxPushes, outcome \in FetchOutcomes, isOutOfOrder \in Drawn,
        form \in Forms, duplicateCount \in DuplicateCounts :
       ChaosFetchResolves(i, outcome, isOutOfOrder, form, duplicateCount)
  \/ \E i \in 1..MaxDelayed : DelayedSendFires(i)
  \/ DisconnectTimerFires
  \/ SocketClose
  \/ SocketError

SpecChaos == InitChaos /\ [][NextChaos]_vars

\* The ticks of the update timers: the same client, which may also subscribe
\* to a again at any time, with the burst draw taken both ways and the pushes
\* sent as they are.
TickPayloads == {Subscribe(JStr(<<"a">>), Absent)}

NextTicks ==
  \/ \E r \in Steady : ConnectionAccepted(r)
  \/ \E raw \in TickPayloads : MessageSubscribe(raw)
  \/ \E i \in 1..MaxChains, outcome \in FetchOutcomes, spikeDraw \in Calm,
        jitter \in Steady :
       FetchResolves(i, outcome, spikeDraw, jitter)
  \/ \E id \in TimerIds, spikeDraw \in Calm, jitter \in Steady,
        burstDraw \in Drawn, burstSize \in BurstSizes :
       UpdateTimerFires(id, spikeDraw, jitter, burstDraw, burstSize)
  \/ \E b \in 1..MaxBursts : BurstTimerFires(b)
  \/ \E i \in 1..MaxPushes, outcome \in FetchOutcomes, isOutOfOrder \in Calm :
       ChaosFetchResolves(i, outcome, isOutOfOrder, "json", 1)
  \/ DisconnectTimerFires
  \/ SocketClose
  \/ SocketError

SpecTicks == InitChaos /\ [][NextTicks]_vars

\* The update scheduler: the same client, which may change its interval,
\* with the spike draw taken both ways, the jitter drawn over its range and
\* the clock advancing.
DelayPayloads ==
  {Subscribe(JStr(<<"a">>), JNum(50)),
   Subscribe(JStr(<<"a">>), JNum(5000)),
   Subscribe(JStr(<<"a">>), JNum(20000))}

NextDelay ==
  \/ \E r \in Steady : ConnectionAccepted(r)
  \/ \E raw \in DelayPayloads : MessageSubscribe(raw)
  \/ \E i \in 1..MaxChains, outcome \in FetchOutcomes, spikeDraw \in Drawn,
        jitter \in RandomDraws :
       FetchResolves(i, outcome, spikeDraw, jitter)
  \/ \E id \in TimerIds, spikeDraw \in Drawn, jitter \in RandomDraws,
        burstDraw \in Calm, burstSize \in {BURST_SIZE_MIN} :
       UpdateTimerFires(id, spikeDraw, jitter, burstDraw, burstSize)
  \/ \E i \in 1..MaxPushes, outcome \in FetchOutcomes, isOutOfOrder \in Calm :
       ChaosFetchResolves(i, outcome, isOutOfOrder, "json", 1)
  \/ AdvanceClock
  \/ SocketClose

SpecDelay == InitChaos /\ [][NextDelay]_vars

\* The forced disconnect: any request, a client that sends one payload of
\* each kind as often as it likes, and the disconnect delay drawn over its
\* range.  Timers that are pending fire, and a socket the server has begun
\* to close does close.
FairPayloads ==
  {NonJsonPayload,
   Payload(TRUE, "object", Tag("ping"), Absent, Absent),
   Payload(TRUE, "object", Tag("unknown"), JStr(<<"a">>), Absent),
   Subscribe(Absent, Absent),
   Subscribe(JStr(<<>>), Absent),
   Subscribe(JStr(<<"a">>), JNum(50))}

ClosingSocketCloses == readyState = "CLOSING" /\ SocketClose

NextFair ==
  \/ ConnectionRejected
  \/ \E r \in RandomDraws : ConnectionAccepted(r)
  \/ \E raw \in FairPayloads : MessageInvalid(raw)
  \/ \E raw \in FairPayloads, drop \in Drawn : MessagePing(raw, drop)
  \/ \E raw \in FairPayloads : MessageOther(raw)
  \/ \E raw \in FairPayloads : MessageSubscribe(raw)
  \/ \E i \in 1..MaxChains, outcome \in FetchOutcomes, spikeDraw \in Calm,
        jitter \in Steady :
       FetchResolves(i, outcome, spikeDraw, jitter)
  \/ \E id \in TimerIds, spikeDraw \in Calm, jitter \in Steady,
        burstDraw \in Calm, burstSize \in {BURST_SIZE_MIN} :
       UpdateTimerFires(id, spikeDraw, jitter, burstDraw, burstSize)
  \/ \E i \in 1..MaxPushes, outcome \in FetchOutcomes, isOutOfOrder \in Calm :
       ChaosFetchResolves(i, outcome, isOutOfOrder, "json", 1)
  \/ DisconnectTimerFires
  \/ SocketClose
  \/ SocketError

SpecFair ==
  /\ Init
  /\ [][NextFair]_vars
  /\ WF_vars(DisconnectTimerFires)
  /\ WF_vars(ClosingSocketCloses)


(* ============================== claims ================================= *)

\* socket.on('message') for the payload raw, whichever branch it takes
Message(raw) ==
  \/ MessageInvalid(raw)
  \/ \E drop \in Drawn : MessagePing(raw, drop)
  \/ MessageOther(raw)
  \/ MessageSubscribe(raw)

\* restartStream resumes after the fetch of the i-th immediate push
Resumes(i) ==
  \E outcome \in FetchOutcomes, spikeDraw \in Drawn, jitter \in RandomDraws :
    FetchResolves(i, outcome, spikeDraw, jitter)

\* the update timer id fires
Fires(id) ==
  \E spikeDraw \in Drawn, jitter \in RandomDraws, burstDraw \in Drawn,
     burstSize \in BurstSizes :
    UpdateTimerFires(id, spikeDraw, jitter, burstDraw, burstSize)

PendingDisconnectTimers == IF disconnectTimer = "pending" THEN {disconnectTimer} ELSE {}

\* C1: on an accepted connection at most one update timer and at most one
\* disconnect timer are pending at any instant.
C1_AtMostOneTimerOfEachKind ==
  conn = "accepted" =>
    /\ Cardinality(timers) <= 1
    /\ Cardinality(PendingDisconnectTimers) <= 1

\* C2: nothing is written on the socket in a state where closed is true.
C2_NoWriteAfterClosed == closed => written = <<>>

\* C3: on an open connection an empty symbol means no update timer and no
\* update cycle in flight, and a non-empty symbol means exactly one update
\* cycle: one immediate fetch in flight or one pending update timer.
C3_CycleMatchesSymbol ==
  (conn = "accepted" /\ ~closed) =>
    IF subscription.symbol = EmptyString
    THEN timers = {} /\ fetches = <<>>
    ELSE Len(fetches) + Cardinality(timers) = 1


\* r is s without its leading and trailing spaces, in upper case
IsTrimmedUpperCaseOf(r, s) ==
  \E first \in 1..(Len(s) + 1), last \in 0..Len(s) :
    /\ \A k \in 1..Len(s) : (k < first \/ k > last) => s[k] = " "
    /\ first <= last => (s[first] # " " /\ s[last] # " ")
    /\ Len(r) = (IF first <= last THEN last - first + 1 ELSE 0)
    /\ \A k \in 1..Len(r) :
         r[k] = (CASE s[first + k - 1] = "a" -> "A"
                   [] s[first + k - 1] = "b" -> "B"
                   [] OTHER -> s[first + k - 1])

\* the interval a subscribe asking for field must end with
RequestedInterval(field) ==
  IF field.t = "number" /\ field.finite
  THEN IF field.n < INTERVAL_MIN_MS THEN INTERVAL_MIN_MS
       ELSE IF field.n > INTERVAL_MAX_MS THEN INTERVAL_MAX_MS
       ELSE field.n
  ELSE INTERVAL_DEFAULT_MS

IntervalInRange ==
  /\ subscription.intervalMs >= INTERVAL_MIN_MS
  /\ subscription.intervalMs <= INTERVAL_MAX_MS

C5_PreviousCycleCancelled ==
  [][/\ \A id \in staleTimers : ~(~closed /\ Fires(id))
     /\ \A i \in 1..Len(fetches) :
          fetches[i].stale =>
            ~(Resumes(i) /\ (timers' # timers \/ written'[1].type = "stockQuote"))]_vars

AllSpaces(str) == \A k \in 1..Len(str) : str[k] = " "

\* C6: a subscribe whose symbol is empty after trimming is answered with
\* exactly one error 'Symbol is required for subscription', cancels the
\* pending update timer, starts no fetch, arms no timer and leaves the
\* connection open.
C6_EmptySymbolSubscribe ==
  [][\A raw \in SubscribePayloads :
       (raw.symbol.t = "string" /\ AllSpaces(raw.symbol.s) /\ MessageSubscribe(raw)) =>
         /\ written' = <<SymbolRequiredMsg>>
         /\ subscription'.timer = NoTimer
         /\ subscription.timer \notin timers'
         /\ timers' \subseteq timers
         /\ Len(fetches') = Len(fetches)
         /\ pushes' = pushes
         /\ closed' = closed /\ readyState' = readyState /\ closeCode' = closeCode
         /\ ~crashed']_vars

C6_Witness ==
  /\ written = <<SymbolRequiredMsg>>
  /\ subscription.symbol = EmptyString
  /\ subscription.timer = NoTimer
  /\ subscription.intervalMs = INTERVAL_MAX_MS
  /\ timers = {}
  /\ pushes # <<>>
  /\ ~closed

\* C7: a subscribe whose symbol is missing or not a string is answered with
\* an error message, starts no update cycle, leaves the connection open and
\* is not fatal to the process.
C7_MissingSymbolRecovered ==
  [][\A raw \in SubscribePayloads :
       (raw.symbol.t # "string" /\ MessageSubscribe(raw)) =>
         /\ Len(written') = 1 /\ written'[1].type = "error"
         /\ fetches' = fetches /\ timers' \subseteq timers
         /\ closed' = closed /\ readyState' = readyState
         /\ ~crashed']_vars

\* the payload does not parse to an object with a string type field
IsMalformed(raw) == ~raw.json \/ raw.kind # "object" \/ raw.type.t # "string"

\* C8: a payload that does not parse to an object with a string type is
\* answered with exactly one error 'Invalid message format', and symbol,
\* intervalMs, both timers, the spike state and closed are left unchanged.
C8_MalformedPayload ==
  [][\A raw \in Payloads :
       (IsMalformed(raw) /\ Message(raw)) =>
         /\ written' = <<InvalidFormatMsg>>
         /\ UNCHANGED <<subscription, timers, disconnectTimer, connState, closed>>
         /\ UNCHANGED <<fetches, pushes, readyState, crashed>>]_vars

C8_Witness ==
  /\ written = <<InvalidFormatMsg>>
  /\ subscription.symbol = <<"A">>
  /\ subscription.timer # NoTimer
  /\ disconnectTimer = "pending"

\* the paths that are /ws or /ws/quotes once at most one trailing slash is
\* removed
AllowedPathnames ==
  {PathWs, Append(PathWs, "/"), PathQuotes, Append(PathQuotes, "/")}

NothingHappened ==
  /\ written = <<>> /\ firstWritten = "none" /\ readyWrites = 0
  /\ disconnectTimer = "undefined"
  /\ timers = {} /\ fetches = <<>> /\ pushes = <<>>
  /\ subscription.symbol = EmptyString /\ ~closed

C10_ReadyFirstThenInitialQuote ==
  /\ [](conn = "accepted" => (readyWrites = 1 /\ firstWritten = "ready"))
  /\ []((Live /\ fetches # <<>>) => ENABLED FetchResolves(1, "ok", FALSE, 0))
  /\ [][(conn = "connecting" /\ conn' = "accepted") =>
          /\ written' = <<ReadyMsg>>
          /\ timers' = {}
          /\ IF req.symbol.t = "string" /\ ~AllSpaces(req.symbol.s)
             THEN /\ IsTrimmedUpperCaseOf(subscription'.symbol, req.symbol.s)
                  /\ fetches' = <<[symbol |-> subscription'.symbol, stale |-> FALSE]>>
             ELSE /\ subscription'.symbol = EmptyString
                  /\ fetches' = <<>>]_vars
  /\ [][\A i \in 1..Len(fetches) :
          (timers = {} /\ ~fetches[i].stale
             /\ \E jitter \in RandomDraws : FetchResolves(i, "ok", FALSE, jitter)) =>
            written' = <<StockQuoteMsg(fetches[i].symbol)>>]_vars

C10_Witness ==
  /\ written = <<StockQuoteMsg(<<"A", " ", "B">>)>>
  /\ firstWritten = "ready"
  /\ readyWrites = 1
  /\ subscription.symbol = <<"A", " ", "B">>
  /\ subscription.intervalMs = INTERVAL_DEFAULT_MS

\* the setTimeout calls of the last step for the timer of that kind
Scheduled(timer) == {k \in DOMAIN scheduled : scheduled[k].timer = timer}

WritesServerReset(msgs) == \E k \in DOMAIN msgs : msgs[k].type = "serverReset"

\* C11: the forced-disconnect timer is armed once, at accept, and never
\* again; fired on an open connection it writes serverReset and closes with
\* 1012 in the same callback; once the connection closed or errored the
\* timer is no longer pending; serverReset is written by nothing else, so at
\* most once.
C11_OneForcedDisconnect ==
  /\ [](closed => disconnectTimer # "pending")
  /\ [][/\ (conn = "connecting" /\ conn' = "accepted") =>
             (disconnectTimer' = "pending" /\ Cardinality(Scheduled("disconnect")') = 1)
        /\ conn # "connecting" =>
             /\ Scheduled("disconnect")' = {}
             /\ disconnectTimer # "pending" => disconnectTimer' # "pending"
        /\ (DisconnectTimerFires /\ readyState = "OPEN") =>
             /\ written' = <<ServerResetMsg>>
             /\ readyState' = "CLOSING"
             /\ closeCode' = CLOSE_SERVICE_RESTART
        /\ WritesServerReset(written') =>
             /\ written' = <<ServerResetMsg>>
             /\ ~closed /\ readyState = "OPEN"
             /\ disconnectTimer = "pending" /\ disconnectTimer' = "fired"]_vars

C11_Witness ==
  /\ written = <<ServerResetMsg>>
  /\ disconnectTimer = "fired"
  /\ readyState = "CLOSING"
  /\ closeCode = CLOSE_SERVICE_RESTART
  /\ ~closed

\* the close handler or the error handler runs
Terminates == SocketClose \/ SocketError

\* C12: the close and the error handler, in any order and any number of
\* times, leave closed true, no update timer and no disconnect timer, write
\* nothing and raise nothing; run again they change none of it.
C12_TerminationIdempotent ==
  [][Terminates =>
       /\ closed'
       /\ timers' = {} /\ subscription'.timer = NoTimer
       /\ disconnectTimer' # "pending"
       /\ written' = <<>>
       /\ ~crashed'
       /\ closed => UNCHANGED <<closed, subscription, timers, disconnectTimer>>]_vars

\* C13: while closed is true no update timer and no disconnect timer is
\* pending, and no step arms one.
C13_NoTimerOnceClosed ==
  /\ [](closed => (timers = {} /\ disconnectTimer # "pending"))
  /\ [][closed => (scheduled' = <<>> /\ timers' \subseteq timers
                    /\ disconnectTimer' # "pending")]_vars

FetchFailures == FetchOutcomes \ {"ok"}

\* the status an error message must carry for a failed fetch
FailureStatus(outcome) ==
  IF outcome = "httpError" THEN STATUS_NOT_FOUND ELSE STATUS_INTERNAL

WritesOneError(msgs, outcome) ==
  /\ Len(msgs) = 1
  /\ msgs[1].type = "error"
  /\ msgs[1].status = FailureStatus(outcome)

\* C14: a fetch that fails, in an immediate or in a scheduled push, is
\* answered with exactly one error message carrying the failure's status
\* (500 when it has none); the server does not close the connection, symbol
\* and intervalMs stay, and the cadence goes on: after an immediate push the
\* next timer is armed as after a success, after a scheduled push the timer
\* armed at the tick stays.
C14_FetchFailureReported ==
  [][/\ \A i \in 1..Len(fetches), outcome \in FetchFailures :
          (\E spikeDraw \in Drawn, jitter \in RandomDraws :
             FetchResolves(i, outcome, spikeDraw, jitter)) =>
            /\ WritesOneError(written', outcome)
            /\ UNCHANGED <<closed, readyState, closeCode, crashed>>
            /\ subscription'.symbol = subscription.symbol
            /\ subscription'.intervalMs = subscription.intervalMs
            /\ ~closed =>
                 /\ Cardinality(timers') = Cardinality(timers) + 1
                 /\ subscription'.timer \in timers' \ timers
                 /\ Cardinality(Scheduled("update")') = 1
     /\ \A i \in 1..Len(pushes), outcome \in FetchFailures :
          (\E isOutOfOrder \in Drawn, form \in CorruptForms \cup {"json"},
              duplicateCount \in DuplicateCounts :
             ChaosFetchResolves(i, outcome, isOutOfOrder, form, duplicateCount)) =>
            /\ WritesOneError(written', outcome)
            /\ UNCHANGED <<closed, readyState, closeCode, crashed>>
            /\ UNCHANGED <<subscription, timers, connState, delayed>>]_vars

C14_Witness ==
  /\ written = <<handleError("httpError")>>
  /\ ~closed /\ readyState = "OPEN"
  /\ subscription.timer \in timers
  /\ fetches = <<>>
  /\ pushes = <<>>

\* C15: an update timer that fires on an open connection arms exactly one
\* successor, in the same callback and before the tick's fetch is awaited,
\* and starts the tick's push or burst; a pending timer can fire whatever
\* fetches are still unresolved, so the cadence goes on; a timer that fires
\* with closed true arms nothing and starts no push.
C15_TickArmsSuccessor ==
  /\ [](\A id \in timers :
          (Live /\ Len(burstTimers) < MaxBursts) =>
            ENABLED UpdateTimerFires(id, FALSE, 0, TRUE, BURST_SIZE_MIN))
  /\ [][\A id \in timers :
          Fires(id) =>
            /\ written' = <<>>
            /\ IF closed
               THEN /\ timers' = timers \ {id}
                    /\ scheduled' = <<>>
                    /\ UNCHANGED <<subscription, connState, pushes, burstTimers>>
               ELSE /\ Cardinality(Scheduled("update")') = 1
                    /\ Cardinality(timers') = Cardinality(timers)
                    /\ subscription'.timer \in timers' \ (timers \ {id})
                    /\ \/ Len(pushes') = Len(pushes) + 1 /\ burstTimers' = burstTimers
                       \/ pushes' = pushes /\ Len(burstTimers') = Len(burstTimers) + 1]_vars

C15_Witness ==
  /\ ~closed
  /\ Cardinality(Scheduled("update")) = 1
  /\ subscription.timer \in timers
  /\ pushes # <<>>
  /\ burstTimers # <<>>
  /\ fetches = <<>>

\* pushUpdateWithChaos resumes after a fetch that succeeded
ChaosResumes(i) ==
  \E isOutOfOrder \in Drawn, form \in Forms, duplicateCount \in DuplicateCounts :
    ChaosFetchResolves(i, "ok", isOutOfOrder, form, duplicateCount)

\* C16: once the connection has closed, a burst callback starts no fetch and
\* writes nothing, and a chaos push writes none of its copies, whether it
\* sends at once or after its out-of-order delay; closed implies that the
\* socket is no longer OPEN, which is what every write tests.
C16_NoChaosWriteAfterClose ==
  /\ [](closed => readyState # "OPEN")
  /\ [][/\ \A b \in 1..Len(burstTimers) :
             (closed /\ BurstTimerFires(b)) =>
               (pushes' = pushes /\ fetches' = fetches /\ written' = <<>>)
        /\ \A i \in 1..Len(delayed) :
             (readyState # "OPEN" /\ DelayedSendFires(i)) => written' = <<>>
        /\ \A i \in 1..Len(pushes) :
             (readyState # "OPEN" /\ ChaosResumes(i)) => written' = <<>>]_vars

C16_Witness ==
  /\ closed
  /\ readyState = "CLOSED"
  /\ written = <<>>
  /\ Len(burstTimers) = 1
  /\ Len(burstTimers[1]) < BURST_SIZE_MIN - 1
  /\ pushes = <<>>
  /\ delayed = <<>>
  /\ timers = {}

IsChaosEffect ==
  \/ Len(written') > 1
  \/ \E k \in DOMAIN written' : written'[k].form # "json"
  \/ Len(delayed') > Len(delayed)
  \/ Len(burstTimers') > Len(burstTimers)

\* C17: the immediate push of restartStream writes exactly one message when
\* its fetch completes, the quote as serialised or one error, and schedules
\* no burst and no delayed send; duplicates, corrupted payloads, delayed
\* sends and bursts come only from the callback of an update timer and the
\* pushes it starts.
C17_ImmediatePushPlain ==
  [][/\ \A i \in 1..Len(fetches) :
          Resumes(i) =>
            /\ Len(written') = 1
            /\ written'[1] \in
                 {StockQuoteMsg(fetches[i].symbol)}
                   \cup {handleError(outcome) : outcome \in FetchFailures}
            /\ UNCHANGED <<pushes, burstTimers, delayed>>
     /\ IsChaosEffect =>
          \/ \E id \in timers : Fires(id)
          \/ \E i \in 1..Len(pushes) : ChaosResumes(i)
          \/ \E i \in 1..Len(delayed) : DelayedSendFires(i)]_vars

C17_Witness ==
  /\ written = <<StockQuoteMsg(<<"A">>)>>
  /\ Cardinality(Scheduled("update")) = 1
  /\ firstWritten = "ready"
  /\ pushes = <<>> /\ burstTimers = <<>> /\ delayed = <<>>
  /\ fetches = <<>>

\* msgs is count copies of one stockQuote payload for symbol
IsCopies(msgs, count, symbol) ==
  /\ Len(msgs) = count
  /\ count \in 1..DUPLICATE_COUNT_MAX
  /\ \A k \in 1..Len(msgs) :
       /\ msgs[k] = msgs[1]
       /\ msgs[k].type = "stockQuote"
       /\ msgs[k].symbol = symbol

IsBurstOf(burst) ==
  /\ Len(burst) >= BURST_SIZE_MIN
  /\ Len(burst) <= BURST_SIZE_MAX
  /\ \A k \in 1..Len(burst) : burst[k] = (k - 1) * BURST_DELAY_MS

\* C18: a tick on an open connection starts one push or a burst of 5 to 15
\* pushes, the k-th deferred by (k - 1) x 10 ms; a push whose fetch succeeds
\* on an open connection writes 1, 2 or 3 identical copies of its payload in
\* one go, at once or after its delay; every combination of out-of-order
\* delay, corruption and duplication can be drawn for any push, in a burst or
\* not.
C18_TickFanOutAndCopies ==
  /\ [](\A i \in 1..Len(pushes), isOutOfOrder \in Drawn, isCorrupted \in Drawn,
           isDuplicate \in Drawn :
          (Live /\ (isOutOfOrder => Len(delayed) < MaxDelayed)) =>
            ENABLED ChaosFetchResolves(i, "ok", isOutOfOrder,
                                       IF isCorrupted THEN "truncated" ELSE "json",
                                       DuplicateCount(isDuplicate, 0)))
  /\ [][/\ \A id \in timers :
             (~closed /\ written' = <<>> /\ delayed' = delayed /\ Fires(id)) =>
               \/ /\ Len(pushes') = Len(pushes) + 1
                  /\ ~pushes'[Len(pushes')].burst
                  /\ burstTimers' = burstTimers
               \/ /\ pushes' = pushes
                  /\ Len(burstTimers') = Len(burstTimers) + 1
                  /\ IsBurstOf(burstTimers'[Len(burstTimers')])
        /\ \A i \in 1..Len(pushes) :
             (readyState = "OPEN" /\ ChaosResumes(i)) =>
               \/ Len(delayed') = Len(delayed) + 1 /\ written' = <<>>
               \/ delayed' = delayed /\ IsCopies(written', Len(written'), pushes[i].symbol)
        /\ \A i \in 1..Len(delayed) :
             (readyState = "OPEN" /\ DelayedSendFires(i)) =>
               /\ IsCopies(written', delayed[i].duplicateCount, delayed[i].msg.symbol)
               /\ written'[1] = delayed[i].msg]_vars

C18_Witness ==
  \E i \in 1..Len(delayed) :
    /\ delayed[i].burst
    /\ delayed[i].msg.form \in CorruptForms
    /\ delayed[i].duplicateCount = DUPLICATE_COUNT_MAX
    /\ readyState = "OPEN"

\* the base interval of the timers the last step armed
BaseInterval ==
  IF connState.inSpikeMode THEN SPIKE_INTERVAL_MS ELSE subscription.intervalMs

\* ms is a whole number within a half of some value of [0.9, 1.1] x base,
\* brought into [400, 10000]
IsJitteredAndClamped(ms, base) ==
  /\ ms >= DELAY_MIN_MS
  /\ ms <= DELAY_MAX_MS
  /\ ms > DELAY_MIN_MS => 20 * ms <= 22 * base + 10
  /\ ms < DELAY_MAX_MS => 20 * ms >= 18 * base - 10

SpikeEnds ==
  /\ connState.inSpikeMode
  /\ ~connState'.inSpikeMode \/ connState'.spikeEndTime # connState.spikeEndTime

\* C19: every update timer is armed with round(base x jitter) brought into
\* [400, 10000], jitter within [0.9, 1.1], base 75 in spike mode and
\* intervalMs otherwise; spike mode begins with its end 8000 ms ahead and
\* ends only in a step that arms an update timer at or after that end.
C19_DelayJitteredAndClamped ==
  /\ [](\A k \in Scheduled("update") :
          IsJitteredAndClamped(scheduled[k].ms, BaseInterval))
  /\ [][/\ SpikeEnds =>
             /\ now >= connState.spikeEndTime
             /\ Cardinality(Scheduled("update")') = 1
        /\ (~connState.inSpikeMode /\ connState'.inSpikeMode) =>
             /\ connState'.spikeEndTime = now + SPIKE_DURATION_MS
             /\ Cardinality(Scheduled("update")') = 1]_vars

C19_Witness ==
  /\ ~connState.inSpikeMode
  /\ connState.spikeEndTime = SPIKE_DURATION_MS
  /\ now = SPIKE_DURATION_MS
  /\ subscription.intervalMs = INTERVAL_MIN_MS
  /\ scheduled = <<Timeout("update", 770)>>

\* C20: with timers firing, every accepted connection ends closed; no
\* message touches the forced-disconnect timer, which is armed at accept
\* with a delay of at least 45 s and less than 120 s and stays pending until
\* it fires or the connection closes or errors.
C20_ForcedDisconnectInTime ==
  /\ (conn = "accepted") ~> closed
  /\ [](\A k \in Scheduled("disconnect") :
          /\ scheduled[k].ms >= DISCONNECT_MIN_MS
          /\ scheduled[k].ms < DISCONNECT_MAX_MS)
  /\ [][/\ \A raw \in FairPayloads : Message(raw) => disconnectTimer' = disconnectTimer
        /\ (disconnectTimer = "pending" /\ disconnectTimer' # "pending") =>
             (DisconnectTimerFires \/ Terminates)]_vars

====
